---- MODULE Spec2Model ----
(***************************************************************************)
(* Model of the three serverless handlers of rapid-research-miniapp:       *)
(*   src/api/telegram.js  bot webhook, in-memory conversation store        *)
(*   src/api/chat.js      widget chat handler, SSE stream transcoder       *)
(*   src/api/webhook.js   Stripe webhook, Telegram group notification      *)
(* Text is modelled as sequences of one-character strings, so that trim,   *)
(* startsWith, split and slice are computed and not assumed.               *)
(***************************************************************************)
EXTENDS Integers, Sequences, FiniteSets, TLC

VARIABLES
  conversations,  \* telegram.js:57  Map chatId -> {messages, lastActivity}
  now,            \* Date.now(), milliseconds
  lastCall,       \* the last direct call of the store's interface and its result
  botEnv,         \* process.env of telegram.js: which credentials are set
  hnd,            \* the invocations of telegram.js handler, one record each
  started,        \* number of bot invocations started so far
  chatEnv,        \* process.env of chat.js: whether OPENAI_API_KEY is set
  chat,           \* the invocation of chat.js handler: pc, request, prompt
  upFrames,       \* the frames the completion provider sends in its response
  upstream,       \* the same response as the characters on the wire
  upPos,          \* how many of these characters reader.read() has returned
  chatRes,        \* the widget response: status, headersSent, body, end
  written,        \* the units res.write has written, in order
  whEnv,          \* process.env of webhook.js: the configured values
  wh,             \* the invocation of webhook.js handler: pc, request, event
  whRes,          \* the response to the payment provider
  whSent          \* the sendMessage calls made to the messaging platform

storeVars == <<conversations, now, lastCall>>
botVars == <<botEnv, hnd, started>>
chatVars == <<chatEnv, chat, upFrames, upstream, upPos, chatRes, written>>
whVars == <<whEnv, wh, whRes, whSent>>
vars == <<conversations, now, lastCall, botEnv, hnd, started,
          chatEnv, chat, upFrames, upstream, upPos, chatRes, written,
          whEnv, wh, whRes, whSent>>

(***************************************************************************)
(* Bounds of the model.                                                    *)
(***************************************************************************)
MaxTicks == 2      \* clock advances per behaviour
MaxLen == 22       \* longest message list handed to updateConversation directly
MaxRequests == 2   \* bot invocations per behaviour
MaxFrames == 2     \* frames in one upstream response

(***************************************************************************)
(* Program constants.                                                      *)
(***************************************************************************)
HistoryLimit == 20
CONVERSATION_TTL == 30 * 60 * 1000

Keys == {"chatA", "chatB"}
Handlers == {1, 2}

Min(a, b) == IF a < b THEN a ELSE b
Max(a, b) == IF a > b THEN a ELSE b

(***************************************************************************)
(* Strings.                                                                *)
(***************************************************************************)
Whitespace == {" ", "\n", "\t"}

RECURSIVE TrimStart(_)
TrimStart(s) ==
  IF s # <<>> /\ Head(s) \in Whitespace THEN TrimStart(Tail(s)) ELSE s

RECURSIVE TrimEnd(_)
TrimEnd(s) ==
  IF s # <<>> /\ s[Len(s)] \in Whitespace
  THEN TrimEnd(SubSeq(s, 1, Len(s) - 1)) ELSE s

\* String.prototype.trim
Trim(s) == TrimEnd(TrimStart(s))

\* String.prototype.startsWith
StartsWith(s, p) == Len(s) >= Len(p) /\ SubSeq(s, 1, Len(p)) = p

\* Array.prototype.slice(-n) and String.prototype.slice(-n), n > 0
SliceLast(s, n) == SubSeq(s, Max(Len(s) - n, 0) + 1, Len(s))

\* String.prototype.slice(n), n >= 0
SliceFrom(s, n) == SubSeq(s, Min(n, Len(s)) + 1, Len(s))

CmdStart == <<"/", "s", "t", "a", "r", "t">>
CmdProducts == <<"/", "p", "r", "o", "d", "u", "c", "t", "s">>
CmdHelp == <<"/", "h", "e", "l", "p">>
Commands == {CmdStart, CmdProducts, CmdHelp}

(***************************************************************************)
(* The conversation store, telegram.js:56-72.                              *)
(***************************************************************************)
\* a variant that lets a session live twice as long
ExpiredLate(entry, t) == t - entry.lastActivity > 2 * CONVERSATION_TTL

Expired(entry, t) == t - entry.lastActivity > CONVERSATION_TTL

\* the value getConversation returns
getConversation(convs, chatId, t) ==
  IF chatId \notin DOMAIN convs THEN <<>>
  ELSE IF Expired(convs[chatId], t) THEN <<>>
  ELSE convs[chatId].messages

\* the Map after getConversation: an expired entry is deleted
getConversationEffect(convs, chatId, t) ==
  IF chatId \in DOMAIN convs /\ Expired(convs[chatId], t)
  THEN [k \in DOMAIN convs \ {chatId} |-> convs[k]]
  ELSE convs

\* a variant that keeps the first entries instead of the last
updateConversationKeepFirst(convs, chatId, messages, t) ==
  [k \in DOMAIN convs \cup {chatId} |->
     IF k = chatId
     THEN [messages |-> SubSeq(messages, 1, Min(Len(messages), HistoryLimit)),
           lastActivity |-> t]
     ELSE convs[k]]

\* a store that keeps one turn less than the limit
updateConversationKeepOdd(convs, chatId, messages, t) ==
  [k \in DOMAIN convs \cup {chatId} |->
     IF k = chatId
     THEN [messages |-> SliceLast(messages, HistoryLimit - 1),
           lastActivity |-> t]
     ELSE convs[k]]

\* a store that keeps one history for all keys
updateConversationShared(convs, chatId, messages, t) ==
  [k \in Keys |->
     [messages |-> SliceLast(messages, HistoryLimit), lastActivity |-> t]]

\* the Map after updateConversation
updateConversation(convs, chatId, messages, t) ==
  [k \in DOMAIN convs \cup {chatId} |->
     IF k = chatId
     THEN [messages |-> SliceLast(messages, HistoryLimit), lastActivity |-> t]
     ELSE convs[k]]

(***************************************************************************)
(* The clock.  Date.now() only moves forward; a step is a millisecond or   *)
(* a whole TTL, so that the instants T + TTL - 1.., T + TTL, T + TTL + 1   *)
(* around an expiry are all reached.                                       *)
(***************************************************************************)
TickSteps == {1, CONVERSATION_TTL}

TimePoints ==
  {p[1] + p[2] * CONVERSATION_TTL :
     p \in {q \in (0..MaxTicks) \X (0..MaxTicks) : q[1] + q[2] <= MaxTicks}}

Tick ==
  /\ \E d \in TickSteps :
       /\ now + d \in TimePoints
       /\ now' = now + d
  /\ UNCHANGED <<conversations, lastCall, botVars, chatVars, whVars>>

(***************************************************************************)
(* Direct calls of the store's interface (telegram.js:60-72) with message  *)
(* lists of every length around the limit of 20.                           *)
(***************************************************************************)
TurnPool ==
  << [role |-> "user", content |-> <<"h", "i">>],
     [role |-> "assistant", content |-> <<"o", "k">>],
     [role |-> "user", content |-> <<"y", "o">>] >>

MsgSeq(n, off) == [i \in 1..n |-> TurnPool[((i + off) % Len(TurnPool)) + 1]]

MsgLens == {0, 1} \cup ((HistoryLimit - 1)..MaxLen)

MsgInputs == {MsgSeq(n, 0) : n \in MsgLens}

NoCall == [op |-> "none", key |-> "none", messages |-> <<>>,
           result |-> <<>>, at |-> 0]

StoreUpdate(k, msgs) ==
  /\ conversations' = updateConversation(conversations, k, msgs, now)
  /\ lastCall' = [op |-> "update", key |-> k, messages |-> msgs,
                  result |-> <<>>, at |-> now]
  /\ UNCHANGED <<now, botVars, chatVars, whVars>>

StoreGet(k) ==
  /\ conversations' = getConversationEffect(conversations, k, now)
  /\ lastCall' = [op |-> "get", key |-> k, messages |-> <<>>,
                  result |-> getConversation(conversations, k, now),
                  at |-> now]
  /\ UNCHANGED <<now, botVars, chatVars, whVars>>

(***************************************************************************)
(* The bot handler, telegram.js:115-215.  One record per invocation; pc    *)
(* is the await the invocation is suspended at.  log is the sequence of    *)
(* the invocation's observable steps.                                      *)
(***************************************************************************)
FreeText == <<"h", "i">>
PaddedHelp == <<" ">> \o CmdHelp \o <<"\n">>
Blank == <<" ">>

AiText == <<"o", "k">>
\* telegram.js:112, the reply used when the completion holds no content
FallbackReply == <<"S", "o", "r", "r", "y">>

BotRequests ==
  {[method |-> "POST", shape |-> "text", chatId |-> k, text |-> t] :
     k \in Keys, t \in {FreeText}}
  \cup
  {[method |-> "POST", shape |-> "text", chatId |-> "chatA", text |-> t] :
     t \in Commands \cup {PaddedHelp, Blank, <<>>}}
  \cup
  {[method |-> "POST", shape |-> s, chatId |-> "chatA", text |-> <<>>] :
     s \in {"noMessage", "noText"}}
  \cup
  {[method |-> "GET", shape |-> "text", chatId |-> "chatA", text |-> FreeText]}

NoRequest == [method |-> "none", shape |-> "none", chatId |-> "none",
              text |-> <<>>]

IdleHandler ==
  [pc |-> "idle", req |-> NoRequest, text |-> <<>>, updatedHistory |-> <<>>,
   prompt |-> <<>>, aiReply |-> <<>>, log |-> <<>>]

\* the invocation returns: its locals go out of scope
Return(r, steps) ==
  [r EXCEPT !.pc = "done", !.updatedHistory = <<>>, !.prompt = <<>>,
            !.aiReply = <<>>, !.log = @ \o steps]

InFlight(h) == hnd[h].pc \notin {"idle", "done"}

\* a handler that takes every update for a text message
IgnoredNever(req) == FALSE

\* telegram.js:135  !message || !message.text
Ignored(req) == req.shape # "text" \/ req.text = <<>>

\* telegram.js:116-197, up to the first await
BotEnter(req, env) ==
  LET text == Trim(req.text)
      base == [IdleHandler EXCEPT !.req = req]
  IN  IF req.method # "POST"
      THEN Return(base, <<"res405">>)
      ELSE IF ~env.token
      THEN Return(base, <<"res500">>)
      ELSE IF Ignored(req)
      THEN Return(base, <<"res200">>)
      ELSE IF text \in Commands
      THEN [base EXCEPT !.pc = "send", !.text = text,
                        !.log = <<"res200", "sendMessage">>]
      ELSE IF ~env.apiKey
      THEN [base EXCEPT !.pc = "send", !.text = text,
                        !.log = <<"res200", "sendMessage">>]
      ELSE [base EXCEPT !.pc = "typing", !.text = text,
                        !.log = <<"res200", "typing">>]

BotStart(h, req) ==
  /\ started < MaxRequests
  /\ ~InFlight(h)
  /\ \A g \in Handlers : g < h => InFlight(g)
  /\ hnd' = [hnd EXCEPT ![h] = BotEnter(req, botEnv)]
  /\ started' = started + 1
  /\ UNCHANGED <<conversations, now, lastCall, botEnv, chatVars, whVars>>

\* telegram.js:100, the system message that opens every completion request
BotSystemTurn == [role |-> "system", content |-> <<"S", "Y", "S">>]

\* a request body that leaves the system message out
BotPromptNoSystem(messages) == messages

\* telegram.js:100, the messages of the completion request
BotPrompt(messages) == <<BotSystemTurn>> \o messages

\* telegram.js:197-204: the typing call settles; on success the history is
\* read and the completion request is issued
AfterTyping(r, outcome, convs, t) ==
  IF outcome = "reject"
  THEN Return(r, <<"caught">>)
  ELSE [r EXCEPT
          !.pc = "llm",
          !.updatedHistory =
             getConversation(convs, r.req.chatId, t) \o
             << [role |-> "user", content |-> r.text] >>,
          !.prompt =
             BotPrompt(getConversation(convs, r.req.chatId, t) \o
                       << [role |-> "user", content |-> r.text] >>),
          !.log = @ \o <<"getConversation", "llm">>]

BotTypingDone(h, outcome) ==
  /\ hnd[h].pc = "typing"
  /\ hnd' = [hnd EXCEPT ![h] = AfterTyping(hnd[h], outcome, conversations, now)]
  /\ conversations' =
       IF outcome = "reject" THEN conversations
       ELSE getConversationEffect(conversations, hnd[h].req.chatId, now)
  /\ UNCHANGED <<now, lastCall, botEnv, started, chatVars, whVars>>

\* telegram.js:91-113: outcomes of getAIResponse
LLMOutcomes == {"reject", "notOk", "content", "noContent"}

LLMFails(outcome) == outcome \in {"reject", "notOk"}

Reply(outcome) == IF outcome = "content" THEN AiText ELSE FallbackReply

\* telegram.js:204-210
AfterLLM(r, outcome) ==
  IF LLMFails(outcome)
  THEN Return(r, <<"caught">>)
  ELSE [r EXCEPT !.pc = "send", !.aiReply = Reply(outcome),
                 !.log = @ \o <<"updateConversation", "sendMessage">>]

\* a handler that stores the exchange whether or not the completion came
BotLLMDoneStoreOnFailure(h, outcome) ==
  /\ hnd[h].pc = "llm"
  /\ hnd' = [hnd EXCEPT ![h] = AfterLLM(hnd[h], outcome)]
  /\ conversations' =
       updateConversation(
         conversations, hnd[h].req.chatId,
         hnd[h].updatedHistory \o
           << [role |-> "assistant", content |-> Reply(outcome)] >>,
         now)
  /\ UNCHANGED <<now, lastCall, botEnv, started, chatVars, whVars>>

BotLLMDone(h, outcome) ==
  /\ hnd[h].pc = "llm"
  /\ hnd' = [hnd EXCEPT ![h] = AfterLLM(hnd[h], outcome)]
  /\ conversations' =
       IF LLMFails(outcome) THEN conversations
       ELSE updateConversation(
              conversations, hnd[h].req.chatId,
              hnd[h].updatedHistory \o
                << [role |-> "assistant", content |-> Reply(outcome)] >>,
              now)
  /\ UNCHANGED <<now, lastCall, botEnv, started, chatVars, whVars>>

\* a handler that answers again with an error when the send fails
AfterSendRespondError(r, outcome) ==
  IF outcome = "reject"
  THEN Return(r, <<"caught", "res500">>)
  ELSE Return(r, <<>>)

\* telegram.js:74-81 awaited at 143, 173, 178, 188, 210
AfterSend(r, outcome) ==
  IF outcome = "reject"
  THEN Return(r, <<"caught">>)
  ELSE Return(r, <<>>)

BotSendDone(h, outcome) ==
  /\ hnd[h].pc = "send"
  /\ hnd' = [hnd EXCEPT ![h] = AfterSend(hnd[h], outcome)]
  /\ UNCHANGED <<conversations, now, lastCall, botEnv, started, chatVars, whVars>>

(***************************************************************************)
(* The widget handler, chat.js:56-151.                                     *)
(*                                                                         *)
(* The provider's response is a sequence of server-sent-event frames, each *)
(* the line "data: " + payload followed by an empty line.  A payload is    *)
(* the marker [DONE] or a JSON text.  JSON texts are written in a reduced  *)
(* alphabet: "{" stands for {"choices":[{"delta":{"content":" and "}" for  *)
(* "}}]}, so {a} is a frame whose delta is a, {} a frame with no delta     *)
(* text and {a a text JSON.parse rejects.                                  *)
(***************************************************************************)
ContentChars == {"a", "b"}

DataPrefix == <<"d", "a", "t", "a", ":", " ">>
DoneMarker == <<"[", "D", "O", "N", "E", "]">>

Frames ==
  {[kind |-> "delta", content |-> <<c>>] : c \in ContentChars}
  \cup {[kind |-> "delta", content |-> <<>>],
        [kind |-> "malformed", content |-> <<"a">>],
        [kind |-> "done", content |-> <<>>]}

Payload(f) ==
  CASE f.kind = "done" -> DoneMarker
    [] f.kind = "delta" -> <<"{">> \o f.content \o <<"}">>
    [] f.kind = "malformed" -> <<"{">> \o f.content

RECURSIVE Wire(_)
Wire(frames) ==
  IF frames = <<>> THEN <<>>
  ELSE DataPrefix \o Payload(Head(frames)) \o <<"\n", "\n">> \o Wire(Tail(frames))

RECURSIVE SeqsUpTo(_, _)
SeqsUpTo(S, n) ==
  IF n = 0 THEN {<<>>}
  ELSE LET shorter == SeqsUpTo(S, n - 1)
       IN  shorter \cup {Append(q, x) : q \in {r \in shorter : Len(r) = n - 1}, x \in S}

Streams == SeqsUpTo(Frames, MaxFrames)

\* String.prototype.split("\n")
RECURSIVE SplitFrom(_, _)
SplitFrom(s, cur) ==
  IF s = <<>> THEN <<cur>>
  ELSE IF Head(s) = "\n" THEN <<cur>> \o SplitFrom(Tail(s), <<>>)
  ELSE SplitFrom(Tail(s), Append(cur, Head(s)))

SplitLines(s) == SplitFrom(s, <<>>)

\* JSON.parse followed by parsed.choices?.[0]?.delta?.content
JSONParse(data) ==
  IF /\ Len(data) >= 2
     /\ data[1] = "{"
     /\ data[Len(data)] = "}"
     /\ \A i \in 2..(Len(data) - 1) : data[i] \in ContentChars
  THEN [ok |-> TRUE, content |-> SubSeq(data, 2, Len(data) - 1)]
  ELSE [ok |-> FALSE, content |-> <<>>]

\* JSON.stringify of a string of ContentChars
JSONStringify(text) == <<"\"">> \o text \o <<"\"">>

\* chat.js:126 and chat.js:134, the two units the handler writes
DoneUnit == DataPrefix \o DoneMarker \o <<"\n", "\n">>
DeltaUnit(content) == <<"0", ":">> \o JSONStringify(content) \o <<"\n">>

\* chat.js:123-139: what one line makes the handler write
ProcessLine(line) ==
  IF StartsWith(line, DataPrefix)
  THEN LET data == SliceFrom(line, 6)
           parsed == JSONParse(data)
       IN  IF data = DoneMarker THEN <<DoneUnit>>
           ELSE IF parsed.ok /\ parsed.content # <<>>
           THEN <<DeltaUnit(parsed.content)>>
           ELSE <<>>
  ELSE <<>>

RECURSIVE ProcessLines(_)
ProcessLines(lines) ==
  IF lines = <<>> THEN <<>>
  ELSE ProcessLine(Head(lines)) \o ProcessLines(Tail(lines))

\* chat.js:119-140: what one chunk makes the handler write
ProcessChunk(chunk) == ProcessLines(SplitLines(chunk))

SystemTurn == [role |-> "system", content |-> <<"S", "Y", "S">>]

ChatBodies ==
  {[shape |-> "messages", messages |-> MsgSeq(n, 0)] : n \in {1, HistoryLimit + 1}}
  \cup {[shape |-> s, messages |-> <<>>] : s \in {"noBody", "noMessages", "notArray"}}

ChatRequests ==
  {[method |-> "POST", body |-> b] : b \in ChatBodies}
  \cup {[method |-> m, body |-> [shape |-> "noBody", messages |-> <<>>]] :
          m \in {"OPTIONS", "GET"}}

NoChatRequest == [method |-> "none", body |-> [shape |-> "none", messages |-> <<>>]]

\* err is the error the handler's catch has received, if any; reader is the
\* state of the upstream body's reader; clientGone is set once the widget's
\* connection has closed
IdleChat ==
  [pc |-> "idle", req |-> NoChatRequest, prompt |-> <<>>, err |-> "none",
   reader |-> "none", clientGone |-> FALSE]

FreshRes == [status |-> 200, headersSent |-> FALSE, body |-> "none", ended |-> 0]

\* res.status(code).json(...): the headers and the body go out, the response ends
Json(res, code, body) ==
  [status |-> code, headersSent |-> TRUE, body |-> body, ended |-> res.ended + 1]

\* res.end()
End(res) == [res EXCEPT !.headersSent = TRUE, !.ended = @ + 1]

\* a catch that answers with the error whatever has been written
CatchAlwaysJson(res) == Json(res, 500, "error")

\* chat.js:144-150
Catch(res) == IF ~res.headersSent THEN Json(res, 500, "error") ELSE End(res)

\* chat.js:58-100, up to the await of fetch
ChatStart(req) ==
  /\ chat.pc = "idle"
  /\ upFrames' = <<>> /\ upstream' = <<>> /\ upPos' = 0 /\ written' = <<>>
  /\ IF req.method = "OPTIONS"
     THEN /\ chat' = [pc |-> "done", req |-> req, prompt |-> <<>>,
                      err |-> "none",
                      reader |-> "none", clientGone |-> FALSE]
          /\ chatRes' = [End(FreshRes) EXCEPT !.status = 204]
     ELSE IF req.method # "POST"
     THEN /\ chat' = [pc |-> "done", req |-> req, prompt |-> <<>>,
                      err |-> "none",
                      reader |-> "none", clientGone |-> FALSE]
          /\ chatRes' = Json(FreshRes, 405, "error")
     ELSE IF ~chatEnv.apiKey
     THEN /\ chat' = [pc |-> "done", req |-> req, prompt |-> <<>>,
                      err |-> "none",
                      reader |-> "none", clientGone |-> FALSE]
          /\ chatRes' = Json(FreshRes, 500, "error")
     ELSE IF req.body.shape = "noBody"
     THEN /\ chat' = [pc |-> "done", req |-> req, prompt |-> <<>>,
                      err |-> "TypeError",
                      reader |-> "none", clientGone |-> FALSE]
          /\ chatRes' = Catch(FreshRes)
     ELSE IF req.body.shape # "messages"
     THEN /\ chat' = [pc |-> "done", req |-> req, prompt |-> <<>>,
                      err |-> "none",
                      reader |-> "none", clientGone |-> FALSE]
          /\ chatRes' = Json(FreshRes, 400, "error")
     ELSE /\ chat' = [pc |-> "fetch", req |-> req,
                      prompt |-> <<SystemTurn>> \o
                                 SliceLast(req.body.messages, HistoryLimit),
                      err |-> "none",
                      reader |-> "none", clientGone |-> FALSE]
          /\ chatRes' = FreshRes
  /\ UNCHANGED <<storeVars, botVars, whVars, chatEnv>>

\* chat.js:84-105: the completion request fails
ChatFetchFail ==
  /\ chat.pc = "fetch"
  /\ chat' = [chat EXCEPT !.pc = "done", !.err = "fetch"]
  /\ chatRes' = Catch(chatRes)
  /\ UNCHANGED <<storeVars, botVars, whVars, chatEnv, upFrames, upstream, upPos, written>>

\* chat.js:102-116: the completion request succeeds with some stream; the
\* first read is issued
ChatFetchOk(frames) ==
  /\ chat.pc = "fetch"
  /\ chat' = [chat EXCEPT !.pc = "reading", !.reader = "locked"]
  /\ upFrames' = frames
  /\ upstream' = Wire(frames)
  /\ upPos' = 0
  /\ UNCHANGED <<storeVars, botVars, whVars, chatEnv, chatRes, written>>

\* chat.js:116-141: a read returns the next n characters; the handler
\* writes what their lines hold and issues the next read
ChatReadChunk(n) ==
  /\ chat.pc = "reading"
  /\ upPos + n <= Len(upstream)
  /\ LET units == ProcessChunk(SubSeq(upstream, upPos + 1, upPos + n))
     IN  /\ written' = written \o units
         /\ chatRes' = IF units # <<>>
                       THEN [chatRes EXCEPT !.headersSent = TRUE]
                       ELSE chatRes
  /\ upPos' = upPos + n
  /\ UNCHANGED <<storeVars, botVars, whVars, chatEnv, chat, upFrames, upstream>>

\* the widget closes its connection while the response is being streamed;
\* the handler registers no listener for it (chat.js:108-143), and a write to
\* the closed response is dropped without an error
ChatClientClose ==
  /\ chat.pc = "reading"
  /\ ~chat.clientGone
  /\ chat' = [chat EXCEPT !.clientGone = TRUE]
  /\ UNCHANGED <<storeVars, botVars, whVars, chatEnv, upFrames, upstream,
                 upPos, chatRes, written>>

\* a variant that leaves the loop only after a termination marker
AfterReadDoneAwaitMarker(c, res) ==
  IF \E i \in DOMAIN written : written[i] = DoneUnit
  THEN [chat |-> [c EXCEPT !.pc = "done"], res |-> End(res)]
  ELSE [chat |-> c, res |-> res]

\* chat.js:117 and 143: what the handler does when a read reports done
AfterReadDone(c, res) == [chat |-> [c EXCEPT !.pc = "done"], res |-> End(res)]

ChatReadDone ==
  /\ chat.pc = "reading"
  /\ upPos = Len(upstream)
  /\ chat' = AfterReadDone(chat, chatRes).chat
  /\ chatRes' = AfterReadDone(chat, chatRes).res
  /\ UNCHANGED <<storeVars, botVars, whVars, chatEnv, upFrames, upstream, upPos, written>>

\* chat.js:116 and 144-150: a read rejects (the upstream connection breaks)
ChatReadError ==
  /\ chat.pc = "reading"
  /\ chat' = [chat EXCEPT !.pc = "done", !.err = "read"]
  /\ chatRes' = Catch(chatRes)
  /\ UNCHANGED <<storeVars, botVars, whVars, chatEnv, upFrames, upstream, upPos, written>>

(***************************************************************************)
(* The payment webhook, webhook.js:55-139.                                 *)
(*                                                                         *)
(* A raw body is the event it encodes.  A signature header is the pair of  *)
(* the body and the secret it was computed from; constructEvent accepts it *)
(* when both are the body received and the secret configured.              *)
(***************************************************************************)
TestPrefix == <<"e", "v", "t", "_", "t", "e", "s", "t", "_">>

EventIds ==
  { <<"e", "v", "t", "_", "1">>,
    TestPrefix \o <<"a", "b", "c">>,
    <<"e", "v", "t", "_", "t", "e", "s", "t">> }

EventTypes == {"checkout.session.completed", "payment_intent.succeeded"}

\* the fields of a checkout session the handler reads; "" stands for a
\* field that is absent or empty (both are falsy), 0 for no amount_total
NoSession ==
  [id |-> <<>>, customer_email |-> <<>>, amount_total |-> 0,
   metadata |-> [customer_name |-> <<>>, customer_email |-> <<>>,
                 items_summary |-> <<>>, total_usd |-> <<>>]]

SessionId ==
  <<"c", "s", "_", "a", "1", "b", "2", "c", "3", "d", "4", "e", "5", "f",
    "6", "g", "7">>

PlainSession ==
  [id |-> SessionId, customer_email |-> <<>>, amount_total |-> 0,
   metadata |-> [customer_name |-> <<"J", "o", " ", "D">>,
                 customer_email |-> <<>>,
                 items_summary |-> <<"W", " ", "x", "2">>,
                 total_usd |-> <<"4", "2", ".", "0", "0">>]]

Sessions ==
  { PlainSession,
    \* reserved characters in every field, two items
    [id |-> SessionId, customer_email |-> <<>>, amount_total |-> 4200,
     metadata |-> [customer_name |-> <<"J", "_", "o">>,
                   customer_email |-> <<"a", "@", "b", ".", "c">>,
                   items_summary |-> <<"W", "-", "1", ",", " ", "G", ".", "2">>,
                   total_usd |-> <<"9", ".", "9", "5">>]],
    \* no metadata: the session's own email and amount are used
    [id |-> SessionId, customer_email |-> <<"s", "_", "t", "@", "u">>,
     amount_total |-> 4205,
     metadata |-> NoSession.metadata],
    \* nothing to fall back on
    [id |-> SessionId, customer_email |-> <<>>, amount_total |-> 0,
     metadata |-> NoSession.metadata] }

Bodies ==
  [id : EventIds, type : EventTypes, session : {PlainSession}]
  \cup
  [id : {<<"e", "v", "t", "_", "1">>}, type : {"checkout.session.completed"},
   session : Sessions]

Secrets == {"whsec_live", "whsec_other"}

\* no stripe-signature header
NoSignature ==
  [body |-> [id |-> <<>>, type |-> "none", session |-> NoSession],
   secret |-> "none"]

\* the header a sender can attach to body b: none, the provider's, one
\* computed over another body, one computed with another secret
SignaturesFor(b) ==
  {NoSignature}
  \cup {[body |-> b, secret |-> k] : k \in Secrets}
  \cup {[body |-> [b EXCEPT !.type = "checkout.session.completed"],
         secret |-> "whsec_live"],
        [body |-> [b EXCEPT !.type = "payment_intent.succeeded"],
         secret |-> "whsec_live"]}

WhRequests ==
  {[method |-> "POST", readable |-> r, rawBody |-> b, sig |-> g] :
     r \in BOOLEAN, b \in Bodies, g \in UNION {SignaturesFor(x) : x \in Bodies}}
  \cup
  {[method |-> "GET", readable |-> TRUE, rawBody |-> b, sig |-> NoSignature] :
     b \in Bodies}

WhEnvs ==
  [stripeKey : BOOLEAN, webhookSecret : {"none", "whsec_live"},
   botToken : BOOLEAN, groupChatId : BOOLEAN]

NoWhRequest ==
  [method |-> "none", readable |-> TRUE,
   rawBody |-> [id |-> <<>>, type |-> "none", session |-> NoSession],
   sig |-> NoSignature]

IdleWh == [pc |-> "idle", req |-> NoWhRequest]

NoResponse == [status |-> 0, body |-> "none"]

\* a variant that accepts any header that is present
ConstructEventAnyHeader(rawBody, sig, secret) == sig # NoSignature

\* webhook.js:84  stripe.webhooks.constructEvent returns instead of throwing
ConstructEvent(rawBody, sig, secret) ==
  sig # NoSignature /\ sig.body = rawBody /\ sig.secret = secret

\* a variant that takes no event for a test event
IsTestEventNever(event) == FALSE

\* webhook.js:91
IsTestEvent(event) == StartsWith(event.id, TestPrefix)

\* a variant that notifies for every event type
IsCheckoutCompletedAlways(event) == TRUE

\* webhook.js:97
IsCheckoutCompleted(event) == event.type = "checkout.session.completed"

\* the grave accent, written as an apostrophe (a string of the model cannot
\* hold the character itself; no text of the model has an apostrophe)
Backtick == "'"

\* webhook.js:52, the characters the pattern of escapeMarkdown matches
Reserved ==
  {"_", "*", "[", "]", "(", ")", "~", Backtick, ">", "#", "+", "-", "=", "|",
   "{", "}", ".", "!"}

\* webhook.js:51-53
RECURSIVE escapeMarkdown(_)
escapeMarkdown(text) ==
  IF text = <<>> THEN <<>>
  ELSE (IF Head(text) \in Reserved THEN <<"\\", Head(text)>> ELSE <<Head(text)>>)
       \o escapeMarkdown(Tail(text))

\* a || b on strings
OrElse(a, b) == IF a # <<>> THEN a ELSE b

\* String.prototype.split(sep)
RECURSIVE SplitOnFrom(_, _, _)
SplitOnFrom(s, sep, cur) ==
  IF s = <<>> THEN <<cur>>
  ELSE IF StartsWith(s, sep)
  THEN <<cur>> \o SplitOnFrom(SliceFrom(s, Len(sep)), sep, <<>>)
  ELSE SplitOnFrom(Tail(s), sep, Append(cur, Head(s)))

SplitOn(s, sep) == SplitOnFrom(s, sep, <<>>)

\* Array.prototype.join(sep)
RECURSIVE Join(_, _)
Join(parts, sep) ==
  IF parts = <<>> THEN <<>>
  ELSE IF Len(parts) = 1 THEN parts[1]
  ELSE parts[1] \o sep \o Join(Tail(parts), sep)

Digits == <<"0", "1", "2", "3", "4", "5", "6", "7", "8", "9">>

RECURSIVE Decimal(_)
Decimal(n) ==
  IF n < 10 THEN <<Digits[n + 1]>>
  ELSE Decimal(n \div 10) \o <<Digits[(n % 10) + 1]>>

\* (cents / 100).toFixed(2) for a whole number of cents
ToFixed2(cents) ==
  Decimal(cents \div 100) \o <<".">> \o
  <<Digits[((cents % 100) \div 10) + 1], Digits[(cents % 10) + 1]>>

\* the fixed texts of the message; "^" stands for the pictograph that opens
\* a line and "%" for the bullet of an item line
Guest ==
  <<"G", "u", "e", "s", "t">>
NotAvailable ==
  <<"N", "/", "A">>
SeeDashboard ==
  <<"S", "e", "e", " ", "S", "t", "r", "i", "p", "e", " ", "d", "a", "s",
    "h", "b", "o", "a", "r", "d">>
ItemSeparator ==
  <<",", " ">>
ItemBullet ==
  <<" ", " ", "%", " ">>
TitleLine ==
  <<"^", " ", "*", "N", "e", "w", " ", "O", "r", "d", "e", "r", " ", "R",
    "e", "c", "e", "i", "v", "e", "d", "\\", "!", "*">>
CustomerLabel ==
  <<"^", " ", "*", "C", "u", "s", "t", "o", "m", "e", "r", ":", "*", " ">>
EmailLabel ==
  <<"^", " ", "*", "E", "m", "a", "i", "l", ":", "*", " ">>
ItemsLine ==
  <<"^", " ", "*", "I", "t", "e", "m", "s", ":", "*">>
TotalLabel ==
  <<"^", " ", "*", "T", "o", "t", "a", "l", ":", "*", " ">>
ConfirmedLine ==
  <<"^", " ", "*", "P", "a", "y", "m", "e", "n", "t", " ", "c", "o", "n",
    "f", "i", "r", "m", "e", "d", " ", "v", "i", "a", " ", "S", "t", "r",
    "i", "p", "e", "*">>
SessionLabel ==
  <<"^", " ", "S", "e", "s", "s", "i", "o", "n", ":", " ", Backtick>>

\* webhook.js:101
CustomerName(session) ==
  escapeMarkdown(OrElse(session.metadata.customer_name, Guest))

\* webhook.js:102
CustomerEmail(session) ==
  escapeMarkdown(OrElse(session.metadata.customer_email,
                        OrElse(session.customer_email, NotAvailable)))

\* webhook.js:104-108
Total(session) ==
  IF session.metadata.total_usd # <<>>
  THEN <<"$">> \o session.metadata.total_usd
  ELSE IF session.amount_total # 0
  THEN <<"$">> \o ToFixed2(session.amount_total)
  ELSE NotAvailable

\* webhook.js:113
ItemLine(line) == ItemBullet \o escapeMarkdown(line)

\* webhook.js:103 and 111-114
ItemLines(session) ==
  LET parts == SplitOn(OrElse(session.metadata.items_summary, SeeDashboard),
                       ItemSeparator)
  IN  Join([i \in DOMAIN parts |-> ItemLine(parts[i])], <<"\n">>)

\* webhook.js:116-129
Message(session) ==
  Join(<< TitleLine,
          <<>>,
          CustomerLabel \o CustomerName(session),
          EmailLabel \o CustomerEmail(session),
          <<>>,
          ItemsLine,
          ItemLines(session),
          <<>>,
          TotalLabel \o Total(session),
          <<>>,
          ConfirmedLine,
          SessionLabel \o SliceLast(session.id, 12) \o <<Backtick>> >>,
       <<"\n">>)

\* webhook.js:29-39, the request sendTelegramMessage makes
Notification(text) ==
  [chat_id |-> "group", parse_mode |-> "Markdown", text |-> text]

\* a handler that refuses to work with any of its four settings missing
NotConfiguredAny(env) ==
  ~env.stripeKey \/ env.webhookSecret = "none" \/ ~env.botToken
  \/ ~env.groupChatId

\* webhook.js:65
NotConfigured(env) == ~env.stripeKey \/ env.webhookSecret = "none"

\* a handler that sends whenever the bot token is set
CanNotifyTokenOnly(env) == env.botToken

\* webhook.js:131
CanNotify(env) == env.botToken /\ env.groupChatId

\* webhook.js:56-75, up to the await of buffer(req)
WhStart(req) ==
  /\ wh.pc = "idle"
  /\ whSent' = <<>>
  /\ IF req.method # "POST"
     THEN /\ wh' = [pc |-> "done", req |-> req]
          /\ whRes' = [status |-> 405, body |-> "methodNotAllowed"]
     ELSE IF NotConfigured(whEnv)
     THEN /\ wh' = [pc |-> "done", req |-> req]
          /\ whRes' = [status |-> 500, body |-> "notConfigured"]
     ELSE /\ wh' = [pc |-> "buffer", req |-> req]
          /\ whRes' = NoResponse
  /\ UNCHANGED <<storeVars, botVars, chatVars, whEnv>>

\* webhook.js:75-138: the body has been read, or reading it has failed; the
\* handler runs to its response or to the await of the notification
WhBody ==
  /\ wh.pc = "buffer"
  /\ LET req == wh.req
         event == req.rawBody
     IN  IF ~req.readable
         THEN /\ wh' = [wh EXCEPT !.pc = "done"]
              /\ whRes' = [status |-> 400, body |-> "unreadable"]
              /\ whSent' = whSent
         ELSE IF ~ConstructEvent(req.rawBody, req.sig, whEnv.webhookSecret)
         THEN /\ wh' = [wh EXCEPT !.pc = "done"]
              /\ whRes' = [status |-> 400, body |-> "signature"]
              /\ whSent' = whSent
         ELSE IF IsTestEvent(event)
         THEN /\ wh' = [wh EXCEPT !.pc = "done"]
              /\ whRes' = [status |-> 200, body |-> "verified"]
              /\ whSent' = whSent
         ELSE IF IsCheckoutCompleted(event) /\ CanNotify(whEnv)
         THEN /\ wh' = [wh EXCEPT !.pc = "send"]
              /\ whRes' = whRes
              /\ whSent' = Append(whSent, Notification(Message(event.session)))
         ELSE /\ wh' = [wh EXCEPT !.pc = "done"]
              /\ whRes' = [status |-> 200, body |-> "received"]
              /\ whSent' = whSent
  /\ UNCHANGED <<storeVars, botVars, chatVars, whEnv>>

\* a handler that sends again when the send has not been delivered
WhSendDoneRetry(outcome) ==
  /\ wh.pc = "send"
  /\ outcome \in {"ok", "notOk", "reject"}
  /\ IF outcome # "ok" /\ Len(whSent) < 2
     THEN /\ wh' = wh
          /\ whRes' = whRes
          /\ whSent' = Append(whSent, whSent[1])
     ELSE /\ wh' = [wh EXCEPT !.pc = "done"]
          /\ whRes' = [status |-> 200, body |-> "received"]
          /\ whSent' = whSent
  /\ UNCHANGED <<storeVars, botVars, chatVars, whEnv>>

\* webhook.js:29-49 and 132-138: the send settles (delivered, refused by the
\* platform, or failed); each outcome is swallowed and the event acknowledged
WhSendDone(outcome) ==
  /\ wh.pc = "send"
  /\ outcome \in {"ok", "notOk", "reject"}
  /\ wh' = [wh EXCEPT !.pc = "done"]
  /\ whRes' = [status |-> 200, body |-> "received"]
  /\ whSent' = whSent
  /\ UNCHANGED <<storeVars, botVars, chatVars, whEnv>>

(***************************************************************************)
(* Specifications.                                                         *)
(***************************************************************************)
\* the state of a fresh process, whatever its environment holds
Fresh ==
  /\ conversations = <<>>
  /\ now = 0
  /\ lastCall = NoCall
  /\ hnd = [h \in Handlers |-> IdleHandler]
  /\ started = 0
  /\ chat = IdleChat
  /\ upFrames = <<>>
  /\ upstream = <<>>
  /\ upPos = 0
  /\ chatRes = FreshRes
  /\ written = <<>>
  /\ wh = IdleWh
  /\ whRes = NoResponse
  /\ whSent = <<>>

AllSet == [token |-> TRUE, apiKey |-> TRUE]

WhAllSet == [stripeKey |-> TRUE, webhookSecret |-> "whsec_live",
             botToken |-> TRUE, groupChatId |-> TRUE]

Init ==
  /\ Fresh
  /\ botEnv \in [token : BOOLEAN, apiKey : BOOLEAN]
  /\ chatEnv = AllSet
  /\ whEnv = WhAllSet

\* the bot: concurrent invocations of the handler over the shared store
Next ==
  \/ Tick
  \/ \E h \in Handlers, req \in BotRequests : BotStart(h, req)
  \/ \E h \in Handlers, o \in {"ok", "reject"} : BotTypingDone(h, o)
  \/ \E h \in Handlers, o \in LLMOutcomes : BotLLMDone(h, o)
  \/ \E h \in Handlers, o \in {"ok", "reject"} : BotSendDone(h, o)

Spec == Init /\ [][Next]_vars

\* the store alone, driven through its two functions
NextStore ==
  \/ Tick
  \/ \E k \in Keys, msgs \in MsgInputs : StoreUpdate(k, msgs)
  \/ \E k \in Keys : StoreGet(k)

SpecStore == Init /\ [][NextStore]_vars

InitChat ==
  /\ Fresh
  /\ botEnv = AllSet
  /\ chatEnv \in [token : {TRUE}, apiKey : BOOLEAN]
  /\ whEnv = WhAllSet

\* one widget request, from its arrival to the end of its response
NextChat ==
  \/ \E req \in ChatRequests : ChatStart(req)
  \/ ChatFetchFail
  \/ \E frames \in Streams : ChatFetchOk(frames)
  \/ \E n \in 1..Len(upstream) : ChatReadChunk(n)
  \/ ChatReadDone
  \/ ChatReadError
  \/ ChatClientClose

SpecChat == InitChat /\ [][NextChat]_vars

\* a read of the upstream body settles when the provider has sent data or
\* closed the stream, and the handler's continuation then runs
FairSpecChat ==
  /\ SpecChat
  /\ WF_vars(\E n \in 1..Len(upstream) : ChatReadChunk(n))
  /\ WF_vars(ChatReadDone)

\* what k free-text exchanges on one key leave in the store
Exchanges(k) == [i \in 1..(2 * k) |-> TurnPool[2 - (i % 2)]]

\* a process that has served no, one, or enough exchanges on chatA to fill
\* the stored history to two below the limit, or to the limit
SeededStores ==
  {<<>>} \cup
  { [c \in {"chatA"} |-> [messages |-> Exchanges(k), lastActivity |-> 0]] :
      k \in {1, (HistoryLimit \div 2) - 1, HistoryLimit \div 2} }

InitPrompt ==
  /\ conversations \in SeededStores
  /\ now = 0
  /\ lastCall = NoCall
  /\ hnd = [h \in Handlers |-> IdleHandler]
  /\ started = 0
  /\ chat = IdleChat
  /\ upFrames = <<>>
  /\ upstream = <<>>
  /\ upPos = 0
  /\ chatRes = FreshRes
  /\ written = <<>>
  /\ wh = IdleWh
  /\ whRes = NoResponse
  /\ whSent = <<>>
  /\ botEnv = AllSet
  /\ chatEnv = AllSet
  /\ whEnv = WhAllSet

\* the two paths that build a completion request: bot messages served one
\* after the other, and one widget request up to the provider's answer
NextPrompt ==
  \/ \E req \in BotRequests : BotStart(1, req)
  \/ \E o \in {"ok", "reject"} : BotTypingDone(1, o)
  \/ \E o \in LLMOutcomes : BotLLMDone(1, o)
  \/ \E o \in {"ok", "reject"} : BotSendDone(1, o)
  \/ \E req \in ChatRequests : ChatStart(req)
  \/ ChatFetchFail

SpecPrompt == InitPrompt /\ [][NextPrompt]_vars

\* the updates that reach the exchange of telegram.js:196-210
ExchangeRequests ==
  {r \in BotRequests :
     r.method = "POST" /\ ~Ignored(r) /\ Trim(r.text) \notin Commands}

\* concurrent free-text messages, with the clock, over a store that earlier
\* exchanges have filled
NextHistory ==
  \/ Tick
  \/ \E h \in Handlers, req \in ExchangeRequests : BotStart(h, req)
  \/ \E h \in Handlers, o \in {"ok", "reject"} : BotTypingDone(h, o)
  \/ \E h \in Handlers, o \in LLMOutcomes : BotLLMDone(h, o)
  \/ \E h \in Handlers, o \in {"ok", "reject"} : BotSendDone(h, o)

\* a fresh store, or one that is full or one exchange short of full
InitHistory ==
  /\ InitPrompt
  /\ \/ conversations = <<>>
     \/ Len(conversations["chatA"].messages) >= HistoryLimit - 2

SpecHistory == InitHistory /\ [][NextHistory]_vars

InitWebhook ==
  /\ Fresh
  /\ botEnv = AllSet
  /\ chatEnv = AllSet
  /\ whEnv \in WhEnvs

\* one webhook request, from its arrival to its response
NextWebhook ==
  \/ \E req \in WhRequests : WhStart(req)
  \/ WhBody
  \/ \E o \in {"ok", "notOk", "reject"} : WhSendDone(o)

SpecWebhook == InitWebhook /\ [][NextWebhook]_vars

(***************************************************************************)
(* Properties of the conversation store and the bot.                       *)
(***************************************************************************)
Count(seq, x) == Cardinality({i \in DOMAIN seq : seq[i] = x})

IsPrefix(p, q) == Len(p) <= Len(q) /\ SubSeq(q, 1, Len(p)) = p

UserTurn(text) == [role |-> "user", content |-> text]

\* C1: getConversation(k) called right after updateConversation(k, msgs)
\* returns the last min(20, |msgs|) entries of msgs in their original order.
C1_GetAfterUpdate ==
  (lastCall.op = "update" /\ lastCall.at = now) =>
    LET msgs == lastCall.messages
        got == getConversation(conversations, lastCall.key, now)
        n == Min(20, Len(msgs))
    IN  /\ Len(got) = n
        /\ \A i \in 1..n : got[i] = msgs[Len(msgs) - n + i]

\* a list of more than 20 messages has just been stored
C1_Witness ==
  /\ lastCall.op = "update"
  /\ lastCall.at = now
  /\ Len(lastCall.messages) > 20
  /\ Len(getConversation(conversations, lastCall.key, now)) = 20

\* C2 as stated: from T + TTL on, T + TTL included, getConversation(k)
\* returns the empty sequence.
C2_ExpiredFromTTL ==
  \A k \in DOMAIN conversations :
    now >= conversations[k].lastActivity + 30 * 60 * 1000
      => getConversation(conversations, k, now) = <<>>

\* C2 amended: strictly after T + TTL getConversation(k) returns the empty
\* sequence; an exchange that reads the history then drops the old entry,
\* starts from the user turn alone and stores that turn and the reply only.
C2_ExpiredAfterTTL ==
  /\ [](\A k \in DOMAIN conversations :
         now > conversations[k].lastActivity + 30 * 60 * 1000
           => getConversation(conversations, k, now) = <<>>)
  /\ [][\A h \in Handlers :
         LET k == hnd[h].req.chatId IN
         /\ ( /\ hnd[h].pc = "typing" /\ hnd'[h].pc = "llm"
              /\ k \in DOMAIN conversations
              /\ now > conversations[k].lastActivity + 30 * 60 * 1000 )
            => ( /\ hnd'[h].updatedHistory = <<UserTurn(hnd[h].text)>>
                 /\ k \notin DOMAIN conversations' )
         /\ ( /\ hnd[h].pc = "llm" /\ hnd'[h].pc = "send"
              /\ Len(hnd[h].updatedHistory) = 1 )
            => ( /\ Len(conversations'[k].messages) = 2
                 /\ conversations'[k].messages[1] = UserTurn(hnd[h].text)
                 /\ conversations'[k].messages[2].role = "assistant"
                 /\ conversations'[k].lastActivity = now )
     ]_vars

\* an exchange is about to read the history of a session older than the TTL
C2_Witness ==
  \E h \in Handlers :
    /\ hnd[h].pc = "typing"
    /\ hnd[h].req.chatId \in DOMAIN conversations
    /\ conversations[hnd[h].req.chatId].messages # <<>>
    /\ now > conversations[hnd[h].req.chatId].lastActivity + 30 * 60 * 1000

\* C3: a command makes no LLM call; any other text, with the API key set,
\* makes exactly one LLM call whatever the outcome of the typing indicator
\* and of sendMessage.
C3_DispatchExclusive ==
  \A h \in Handlers :
    ( /\ hnd[h].pc = "done"
      /\ hnd[h].req.method = "POST"
      /\ hnd[h].req.shape = "text"
      /\ hnd[h].req.text # <<>>
      /\ botEnv.token )
    => /\ Trim(hnd[h].req.text) \in {CmdStart, CmdProducts, CmdHelp}
            => Count(hnd[h].log, "llm") = 0
       /\ ( Trim(hnd[h].req.text) \notin {CmdStart, CmdProducts, CmdHelp}
            /\ botEnv.apiKey )
            => Count(hnd[h].log, "llm") = 1

(***************************************************************************)
(* Properties of the widget stream.                                        *)
(***************************************************************************)
Markers(frames) == Cardinality({i \in DOMAIN frames : frames[i].kind = "done"})

IsDelta(f) == f.kind = "delta" /\ f.content # <<>>

\* the units the deltas of the frames call for, one per frame, in order
RECURSIVE ExpectedUnits(_)
ExpectedUnits(frames) ==
  IF frames = <<>> THEN <<>>
  ELSE (IF IsDelta(Head(frames))
        THEN << <<"0", ":", "\"">> \o Head(frames).content \o <<"\"", "\n">> >>
        ELSE <<>>) \o ExpectedUnits(Tail(frames))

IsDoneUnit(u) ==
  u = <<"d", "a", "t", "a", ":", " ", "[", "D", "O", "N", "E", "]", "\n", "\n">>

TextUnits(units) == SelectSeq(units, LAMBDA u : ~IsDoneUnit(u))

DoneUnits(units) == Cardinality({i \in DOMAIN units : IsDoneUnit(units[i])})

\* the reader has reported done and the handler has left the loop
StreamFinished ==
  chat.pc = "done" /\ upstream # <<>> /\ upPos = Len(upstream) /\ chatRes.status = 200
    /\ chatRes.body = "none"

\* C4: the termination token is written at most once in a response, and
\* exactly once when the upstream stream holds exactly one marker.
C4_OneTermination ==
  /\ DoneUnits(written) <= 1
  /\ (StreamFinished /\ Markers(upFrames) = 1) => DoneUnits(written) = 1

\* C5: whatever the division into chunks, the text units written are the
\* non-empty deltas of the parseable frames, one unit per frame, in order.
C5_DeltasPreserved ==
  /\ IsPrefix(TextUnits(written), ExpectedUnits(upFrames))
  /\ StreamFinished => TextUnits(written) = ExpectedUnits(upFrames)

\* C6: once the termination unit is written no upstream read is issued and
\* no delta unit is written.
C6_StopsAfterMarker ==
  /\ DoneUnits(written) >= 1 => chat.pc # "reading"
  /\ \A i, j \in DOMAIN written :
       (i < j /\ IsDoneUnit(written[i])) => IsDoneUnit(written[j])

\* C7: when the upstream ends with no termination marker the response is
\* still ended, exactly once: the handler does not wait for a marker.
C7_EndsWithoutMarker ==
  /\ [](chatRes.ended <= 1)
  /\ [](chat.pc = "done" => chatRes.ended = 1)
  /\ (chat.pc = "reading" /\ Markers(upFrames) = 0)
       ~> (chat.pc = "done" /\ chatRes.ended = 1)

\* the reader has reported done on a stream without marker, after deltas
C7_Witness ==
  /\ StreamFinished
  /\ Markers(upFrames) = 0
  /\ written # <<>>
  /\ DoneUnits(written) = 0
  /\ chatRes.ended = 1

(***************************************************************************)
(* Properties of the payment webhook.                                      *)
(***************************************************************************)
SecretSet == whEnv.webhookSecret # "none"

\* the header was computed over the body received with the configured secret
Verifies(req) ==
  /\ req.sig # NoSignature
  /\ req.sig.body = req.rawBody
  /\ req.sig.secret = whEnv.webhookSecret

Received == wh.pc # "idle" /\ wh.req.method = "POST" /\ wh.req.readable

Verified == Received /\ whEnv.stripeKey /\ SecretSet /\ Verifies(wh.req)

Answered == wh.pc = "done"

\* C8 as stated: a request whose signature does not verify, or that arrives
\* with no webhook secret configured, is answered with a 4xx and causes no
\* notification.
C8_RejectedWith4xx ==
  (Received /\ (~Verifies(wh.req) \/ ~SecretSet)) =>
    /\ whSent = <<>>
    /\ Answered => whRes.status \in 400..499

\* C8 amended: such a request is answered 500 when the Stripe key or the
\* webhook secret is not configured and 400 otherwise (405 when it is not a
\* POST); in each case nothing is sent.
C8_RejectedWithoutEffect ==
  (wh.pc # "idle" /\ (~Verifies(wh.req) \/ ~SecretSet)) =>
    /\ whSent = <<>>
    /\ wh.pc # "send"
    /\ Answered =>
         whRes.status =
           IF wh.req.method # "POST" THEN 405
           ELSE IF ~whEnv.stripeKey \/ ~SecretSet THEN 500
           ELSE 400

\* a well-formed checkout.session.completed payload, signed over another
\* body, is rejected with every credential configured
C8_Witness ==
  /\ Answered
  /\ Received
  /\ whEnv = [stripeKey |-> TRUE, webhookSecret |-> "whsec_live",
              botToken |-> TRUE, groupChatId |-> TRUE]
  /\ wh.req.rawBody.type = "checkout.session.completed"
  /\ wh.req.rawBody.id = <<"e", "v", "t", "_", "1">>
  /\ wh.req.sig.secret = "whsec_live"
  /\ wh.req.sig.body # wh.req.rawBody
  /\ whRes = [status |-> 400, body |-> "signature"]
  /\ whSent = <<>>

\* C9: a verified event whose id starts with evt_test_ is answered with
\* success and causes no notification, whatever its type.
C9_TestEventNoEffect ==
  (Verified /\ StartsWith(wh.req.rawBody.id,
                          <<"e", "v", "t", "_", "t", "e", "s", "t", "_">>)) =>
    /\ whSent = <<>>
    /\ wh.pc # "send"
    /\ Answered => whRes.status = 200

\* a verified checkout.session.completed test event with the destination
\* configured has been answered
C9_Witness ==
  /\ Answered
  /\ Verified
  /\ wh.req.rawBody.id = <<"e", "v", "t", "_", "t", "e", "s", "t", "_", "a", "b", "c">>
  /\ wh.req.rawBody.type = "checkout.session.completed"
  /\ whEnv.botToken /\ whEnv.groupChatId
  /\ whRes.status = 200
  /\ whSent = <<>>

\* C10: only a verified checkout.session.completed event causes a
\* notification; a verified event of another type is answered with success
\* and causes none.
C10_OnlyCheckoutNotifies ==
  /\ whSent # <<>> =>
       (Verified /\ wh.req.rawBody.type = "checkout.session.completed")
  /\ (Verified /\ wh.req.rawBody.type # "checkout.session.completed") =>
       /\ whSent = <<>>
       /\ wh.pc # "send"
       /\ Answered => whRes.status = 200

\* a verified event of another type, not a test event, has been answered
\* with the destination configured
C10_Witness ==
  /\ Answered
  /\ Verified
  /\ wh.req.rawBody.id = <<"e", "v", "t", "_", "1">>
  /\ wh.req.rawBody.type = "payment_intent.succeeded"
  /\ whEnv.botToken /\ whEnv.groupChatId
  /\ whRes = [status |-> 200, body |-> "received"]
  /\ whSent = <<>>

\* a markdown reader sees sub at position i of text: a backslash in front of
\* a reserved character is not shown
RECURSIVE ShowsAt(_, _, _)
ShowsAt(text, i, sub) ==
  IF sub = <<>> THEN TRUE
  ELSE IF i > Len(text) THEN FALSE
  ELSE IF text[i] = "\\" /\ i < Len(text) /\ text[i + 1] \in Reserved
  THEN text[i + 1] = Head(sub) /\ ShowsAt(text, i + 2, Tail(sub))
  ELSE text[i] = Head(sub) /\ ShowsAt(text, i + 1, Tail(sub))

Shows(text, sub) == \E i \in 1..Len(text) : ShowsAt(text, i, sub)

\* the items of a summary, as the sender lists them
Items(summary) == SplitOn(summary, <<",", " ">>)

\* a verified event that is not a test event, of the completed-checkout type,
\* with the bot token and the group destination configured
Notifiable ==
  /\ Verified
  /\ ~StartsWith(wh.req.rawBody.id,
                 <<"e", "v", "t", "_", "t", "e", "s", "t", "_">>)
  /\ wh.req.rawBody.type = "checkout.session.completed"
  /\ whEnv.botToken /\ whEnv.groupChatId

\* what the metadata holds is shown by the message
Carries(text, metadata) ==
  /\ metadata.customer_name # <<>> =>
       Shows(text, metadata.customer_name)
  /\ metadata.items_summary # <<>> =>
       \A i \in DOMAIN Items(metadata.items_summary) :
         Shows(text, Items(metadata.items_summary)[i])
  /\ metadata.total_usd # <<>> =>
       Shows(text, <<"$">> \o metadata.total_usd)

\* C11: for a verified, non-test checkout.session.completed event with bot
\* token and group destination configured, one invocation makes exactly one
\* notification send, whatever the send's outcome, and the message shows the
\* customer name, every item of the items summary and the total of the
\* event's metadata.
C11_ExactlyOneSend ==
  Notifiable =>
    /\ wh.pc = "buffer" => whSent = <<>>
    /\ wh.pc \in {"send", "done"} =>
         /\ Len(whSent) = 1
         /\ whSent[1].chat_id = "group"
         /\ Carries(whSent[1].text, wh.req.rawBody.session.metadata)

\* the event of a two-item order whose fields hold reserved characters has
\* been acknowledged after its one send
C11_Witness ==
  /\ Answered
  /\ Notifiable
  /\ wh.req.rawBody.session.metadata.customer_name = <<"J", "_", "o">>
  /\ Len(Items(wh.req.rawBody.session.metadata.items_summary)) = 2
  /\ wh.req.rawBody.session.metadata.total_usd = <<"9", ".", "9", "5">>
  /\ Len(whSent) = 1
  /\ whRes = [status |-> 200, body |-> "received"]

\* the end of the line that holds position i of text
LineEnd(text, i) ==
  CHOOSE j \in i..(Len(text) + 1) :
    /\ j = Len(text) + 1 \/ text[j] = "\n"
    /\ \A k \in i..(j - 1) : text[k] # "\n"

\* what follows label on the lines of text that start with it
FieldsAfter(text, label) ==
  { SubSeq(text, i + Len(label), LineEnd(text, i + Len(label)) - 1) :
      i \in { i \in 1..(Len(text) - Len(label) + 1) :
                /\ i = 1 \/ text[i - 1] = "\n"
                /\ SubSeq(text, i, i + Len(label) - 1) = label } }

\* every reserved character of field has a backslash in front of it
Escaped(field) ==
  \A i \in 1..Len(field) :
    field[i] \in Reserved => (i > 1 /\ field[i - 1] = "\\")

\* C12: in a notification that is sent, the customer name, the customer
\* email, every item and the total reach the message with each reserved
\* character preceded by a backslash.
C12_AllFieldsEscaped ==
  \A n \in 1..Len(whSent) :
    \A label \in {CustomerLabel, EmailLabel, ItemBullet, TotalLabel} :
      \A field \in FieldsAfter(whSent[n].text, label) : Escaped(field)

VerifiedCompleted ==
  Verified /\ wh.req.rawBody.type = "checkout.session.completed"

NonTest ==
  ~StartsWith(wh.req.rawBody.id,
              <<"e", "v", "t", "_", "t", "e", "s", "t", "_">>)

Acknowledged == whRes = [status |-> 200, body |-> "received"]

\* C13 as stated: every verified checkout.session.completed event is answered
\* with {received: true}.
C13_EveryCompletedReceived ==
  (VerifiedCompleted /\ Answered) => Acknowledged

\* C13 amended: a verified checkout.session.completed event that is not a
\* test event is answered with {received: true} when the notification was
\* skipped and whatever the outcome of the send; with the bot token or the
\* group destination missing no send is attempted.
C13_NonTestCompletedReceived ==
  /\ [](  (VerifiedCompleted /\ NonTest) =>
            /\ Answered => Acknowledged
            /\ (~whEnv.botToken \/ ~whEnv.groupChatId) =>
                 (whSent = <<>> /\ wh.pc # "send"))
  /\ [][ (wh.pc = "send" /\ VerifiedCompleted /\ NonTest) =>
           (wh'.pc = "done" /\ whRes' = [status |-> 200, body |-> "received"]
            /\ whSent' = whSent) ]_vars

\* a verified completed checkout has been acknowledged without a send, the
\* group destination being unset
C13_Witness ==
  /\ Answered
  /\ VerifiedCompleted
  /\ NonTest
  /\ whEnv.botToken /\ ~whEnv.groupChatId
  /\ Acknowledged
  /\ whSent = <<>>

Success == whRes.status \in 200..299

\* C14 as stated: the handler answers with a non-success status only when
\* the signature does not verify or the body cannot be read.
C14_FailsOnlyOnSignatureOrBody ==
  (Answered /\ ~Success) => (~wh.req.readable \/ ~Verifies(wh.req))

\* C14 amended: the handler answers 405 to a request that is not a POST, 500
\* to a POST when the Stripe key or the webhook secret is not configured, 400
\* when the body cannot be read or the signature does not verify, and 200 in
\* every other case, a missing bot token or group destination included.
C14_StatusByCase ==
  Answered =>
    whRes.status =
      IF wh.req.method # "POST" THEN 405
      ELSE IF ~whEnv.stripeKey \/ ~SecretSet THEN 500
      ELSE IF ~wh.req.readable \/ ~Verifies(wh.req) THEN 400
      ELSE 200

\* a readable POST whose signature verifies against the configured secret is
\* answered 500 because the Stripe key is not configured
C14_Witness ==
  /\ Answered
  /\ wh.req.method = "POST"
  /\ wh.req.readable
  /\ SecretSet
  /\ Verifies(wh.req)
  /\ ~whEnv.stripeKey
  /\ whRes = [status |-> 500, body |-> "notConfigured"]

IsSystemTurn(turn) == turn.role = "system"

\* p is one system turn followed by the last n entries of list, in order
SystemThenLast(p, list, n) ==
  /\ Len(p) = n + 1
  /\ n <= Len(list)
  /\ IsSystemTurn(p[1])
  /\ \A i \in 1..n : p[i + 1] = list[Len(list) - n + i]

\* C15 as stated: no prompt sent to the LLM holds more than 20 turns, on the
\* bot path and on the widget path.
C15_PromptAtMostTwenty ==
  /\ \A h \in Handlers :
       hnd[h].pc = "llm" => Len(hnd[h].prompt) <= HistoryLimit
  /\ chat.pc = "fetch" => Len(chat.prompt) <= HistoryLimit

\* C15 amended: on the bot path the prompt is the system turn, then the
\* stored history as getConversation returns it (at most 20 turns), then the
\* new user turn: at most 22 turns.  On the widget path it is the system turn
\* followed by the last 20 entries of the client's list, or by the whole list
\* when it is shorter: at most 21 turns.
C15_PromptOrderAndBound ==
  /\ []( /\ \A h \in Handlers :
              hnd[h].pc = "llm" => Len(hnd[h].prompt) <= HistoryLimit + 2
         /\ chat.pc = "fetch" => Len(chat.prompt) <= HistoryLimit + 1 )
  /\ [][ \A h \in Handlers :
           (hnd[h].pc = "typing" /\ hnd'[h].pc = "llm") =>
             LET history ==
                   IF hnd[h].req.chatId \in DOMAIN conversations
                      /\ now - conversations[hnd[h].req.chatId].lastActivity
                           <= CONVERSATION_TTL
                   THEN conversations[hnd[h].req.chatId].messages
                   ELSE <<>>
                 list == history \o <<UserTurn(hnd[h].text)>>
             IN  /\ Len(history) <= HistoryLimit
                 /\ SystemThenLast(hnd'[h].prompt, list, Len(list)) ]_vars
  /\ [][ (chat.pc = "idle" /\ chat'.pc = "fetch") =>
           LET list == chat'.req.body.messages
           IN  SystemThenLast(chat'.prompt, list,
                              IF Len(list) < HistoryLimit THEN Len(list)
                              ELSE HistoryLimit) ]_vars

\* a free-text message on a key whose stored history is full is waiting for
\* its completion with a prompt of 22 turns, and a widget request with 21
\* messages is waiting with a prompt of 21 turns
C15_Witness ==
  /\ hnd[1].pc = "llm"
  /\ Len(hnd[1].prompt) = HistoryLimit + 2
  /\ hnd[1].prompt[HistoryLimit + 2] = UserTurn(hnd[1].text)
  /\ chat.pc = "fetch"
  /\ Len(chat.req.body.messages) = HistoryLimit + 1
  /\ Len(chat.prompt) = HistoryLimit + 1

\* the entry of key k differs between the two states of a step
EntryChanges(k) ==
  \/ (k \in DOMAIN conversations) # (k \in DOMAIN conversations')
  \/ /\ k \in DOMAIN conversations
     /\ k \in DOMAIN conversations'
     /\ conversations[k] # conversations'[k]

\* C16: the stored history of a key changes only in a step of an invocation
\* serving a message on that key (its history read or its update); messages
\* on other keys never touch it.  That same-key invocations are not
\* serialized is shown by the reachable state C16_Witness.
C16_KeysIsolated ==
  [][ \A k \in Keys :
        EntryChanges(k) =>
          \E h \in Handlers :
            /\ hnd[h].req.chatId = k
            /\ hnd[h].pc \in {"typing", "llm"}
            /\ hnd'[h].pc # hnd[h].pc ]_vars

\* two free-text messages on chatA have both been answered and stored, no
\* time has passed, and the store holds the two turns of one exchange only:
\* both invocations read the empty history before either persisted
C16_Witness ==
  /\ now = 0
  /\ \A h \in Handlers :
       /\ hnd[h].pc = "done"
       /\ hnd[h].req.chatId = "chatA"
       /\ Count(hnd[h].log, "updateConversation") = 1
  /\ "chatA" \in DOMAIN conversations
  /\ Len(conversations["chatA"].messages) = 2

\* the update has no message.text
NoText(req) == req.shape # "text" \/ req.text = <<>>

\* the update's text, trimmed, is one of the command literals
IsCommand(req) ==
  ~NoText(req) /\ Trim(req.text) \in {CmdStart, CmdProducts, CmdHelp}

\* the updates the claim is about
Static(req) == NoText(req) \/ IsCommand(req) \/ ~botEnv.apiKey

Has(log, step) == \E i \in DOMAIN log : log[i] = step

\* C17: an invocation serving a recognized command, or running with no LLM
\* key, or serving an update without message.text, never changes the
\* conversation store and never sends the typing indicator; one serving an
\* update without message.text makes no outbound call.
C17_StaticLeavesStore ==
  /\ [][ \A h \in Handlers :
           (hnd'[h] # hnd[h] /\ Static(hnd'[h].req)) =>
             conversations' = conversations ]_vars
  /\ [](\A h \in Handlers :
          (hnd[h].pc # "idle" /\ Static(hnd[h].req)) =>
            /\ hnd[h].pc \notin {"typing", "llm"}
            /\ ~Has(hnd[h].log, "typing")
            /\ ~Has(hnd[h].log, "getConversation")
            /\ ~Has(hnd[h].log, "llm")
            /\ ~Has(hnd[h].log, "updateConversation")
            /\ NoText(hnd[h].req) =>
                 /\ hnd[h].pc = "done"
                 /\ ~Has(hnd[h].log, "sendMessage"))

\* a command on chatA has been answered while chatA has a stored history
C17_Witness ==
  /\ botEnv = [token |-> TRUE, apiKey |-> TRUE]
  /\ hnd[1].pc = "done"
  /\ IsCommand(hnd[1].req)
  /\ hnd[1].req.chatId = "chatA"
  /\ hnd[1].log = <<"res200", "sendMessage">>
  /\ "chatA" \in DOMAIN conversations
  /\ Len(conversations["chatA"].messages) = 2

Responses == {"res200", "res405", "res500"}

\* the HTTP responses an invocation has written, in order
ResponsesOf(log) == SelectSeq(log, LAMBDA step : step \in Responses)

\* C18 as stated: every POST update gets the 200 acknowledgment as its single
\* response, before any outbound call.
C18_EveryPostAcknowledged ==
  \A h \in Handlers :
    (hnd[h].pc # "idle" /\ hnd[h].req.method = "POST") =>
      /\ ResponsesOf(hnd[h].log) = <<"res200">>
      /\ hnd[h].log[1] = "res200"

\* C18 amended: with the bot token configured, every POST update gets the 200
\* acknowledgment as its single response, written before any outbound call;
\* whatever the outcome of the typing, completion and send calls, the
\* invocation moves on or returns and writes no further response.
C18_AcknowledgedFirstAndOnce ==
  /\ [](\A h \in Handlers :
          (hnd[h].pc # "idle" /\ hnd[h].req.method = "POST" /\ botEnv.token) =>
            /\ ResponsesOf(hnd[h].log) = <<"res200">>
            /\ hnd[h].log[1] = "res200")
  /\ [][ \A h \in Handlers :
           (hnd[h].pc \in {"typing", "llm", "send"} /\ hnd'[h] # hnd[h]) =>
             /\ hnd'[h].pc \in {"llm", "send", "done"}
             /\ IsPrefix(hnd[h].log, hnd'[h].log)
             /\ ResponsesOf(hnd'[h].log) = ResponsesOf(hnd[h].log) ]_vars

\* a free-text exchange whose reply could not be sent has returned through
\* the catch with the acknowledgment as its only response
C18_Witness ==
  /\ botEnv.token
  /\ hnd[1].pc = "done"
  /\ hnd[1].req.method = "POST"
  /\ hnd[1].log = <<"res200", "typing", "getConversation", "llm",
                    "updateConversation", "sendMessage", "caught">>

\* the calls of a free-text exchange, in the order the claim gives
ExchangeOrder ==
  <<"res200", "typing", "getConversation", "llm", "updateConversation",
    "sendMessage">>

\* what a lookup of key k gives in the current state
Lookup(convs, k) ==
  IF k \in DOMAIN convs /\ now - convs[k].lastActivity <= CONVERSATION_TTL
  THEN convs[k].messages
  ELSE <<>>

\* C19: a free-text exchange makes its calls in the order typing, history
\* fetch, completion, store update, reply send, stopping at the first that
\* fails.  The step in which the completion returns stores the user turn
\* followed by the assistant turn, before the reply is sent; a failed
\* completion leaves every lookup as it was and sends nothing; the outcome of
\* the send does not touch the store.
C19_ExchangeOrder ==
  /\ [](\A h \in Handlers :
          Has(hnd[h].log, "typing") =>
            \E n \in 2..Len(ExchangeOrder) :
              \/ hnd[h].log = SubSeq(ExchangeOrder, 1, n)
              \/ hnd[h].log = SubSeq(ExchangeOrder, 1, n) \o <<"caught">>)
  /\ [][ \A h \in Handlers :
           LET k == hnd[h].req.chatId
               stored == conversations'[k].messages
           IN  /\ (hnd[h].pc = "typing" /\ hnd'[h] # hnd[h]) =>
                    \A j \in Keys :
                      Lookup(conversations', j) = Lookup(conversations, j)
               /\ (hnd[h].pc = "llm" /\ hnd'[h].pc = "send") =>
                    /\ k \in DOMAIN conversations'
                    /\ Len(stored) >= 2
                    /\ stored[Len(stored) - 1] = UserTurn(hnd[h].text)
                    /\ stored[Len(stored)] =
                         [role |-> "assistant", content |-> hnd'[h].aiReply]
                    /\ ~Has(hnd[h].log, "sendMessage")
               /\ (hnd[h].pc = "llm" /\ hnd'[h].pc = "done") =>
                    /\ conversations' = conversations
                    /\ ~Has(hnd'[h].log, "sendMessage")
               /\ (hnd[h].pc = "send" /\ hnd'[h] # hnd[h]) =>
                    conversations' = conversations ]_vars

\* the reply of a free-text exchange on chatA could not be sent, and the
\* store holds the user turn and the assistant turn of that exchange
C19_Witness ==
  /\ hnd[1].pc = "done"
  /\ hnd[1].req.chatId = "chatA"
  /\ hnd[1].log = ExchangeOrder \o <<"caught">>
  /\ hnd[2].pc = "idle"
  /\ "chatA" \in DOMAIN conversations
  /\ conversations["chatA"].messages =
       << UserTurn(hnd[1].req.text),
          [role |-> "assistant", content |-> <<"o", "k">>] >>

\* the request failed before any stream unit was written: bad body, no LLM
\* key, the completion request failed, or the first reads failed
FailedBeforeStream ==
  /\ chat.pc = "done"
  /\ chat.req.method = "POST"
  /\ written = <<>>
  /\ \/ ~chatEnv.apiKey
     \/ chat.req.body.shape # "messages"
     \/ chat.err \in {"fetch", "read"}

\* the upstream broke after the first stream unit was written
FailedInStream == chat.pc = "done" /\ chat.err = "read" /\ written # <<>>

\* C20: a failure before any stream unit is answered with an error status and
\* a JSON body and no stream unit; a failure after the first unit leaves the
\* status and the body alone and ends the response; a response that is being
\* produced has not been finished and a finished request has finished its
\* response once.
C20_ErrorByPhase ==
  /\ FailedBeforeStream =>
       /\ chatRes.status \in 400..599
       /\ chatRes.body = "error"
  /\ FailedInStream =>
       /\ chatRes.status = 200
       /\ chatRes.body = "none"
  /\ (chatRes.body = "error" \/ chatRes.status # 200) => written = <<>>
  /\ chat.pc = "done" => chatRes.ended = 1
  /\ chat.pc # "done" => chatRes.ended = 0

\* the upstream broke after a delta had been forwarded and before the whole
\* stream had been read
C20_Witness ==
  /\ FailedInStream
  /\ \E i \in DOMAIN written : written[i] # DoneUnit
  /\ upPos < Len(upstream)
  /\ chatRes = [status |-> 200, headersSent |-> TRUE, body |-> "none",
                ended |-> 1]

\* C21: once the widget's connection has closed, the handler issues no
\* further upstream read (the read that was pending settles and the loop is
\* left) and the reader it holds is released.
C21_StopsReadingOnCancel ==
  [][ (chat.clientGone /\ chat.pc = "reading") =>
        /\ chat'.pc # "reading"
        /\ chat'.reader = "released" ]_vars

\* even length between 2 and 20, user and assistant turns alternating from a
\* user turn to an assistant turn
WellFormed(messages) ==
  /\ Len(messages) \in 2..20
  /\ Len(messages) % 2 = 0
  /\ \A i \in DOMAIN messages :
       messages[i].role = IF i % 2 = 1 THEN "user" ELSE "assistant"

IsSuffix(p, q) ==
  Len(p) <= Len(q) /\ SubSeq(q, Len(q) - Len(p) + 1, Len(q)) = p

\* C22: every stored history has even length between 2 and 20 and alternates
\* from a user turn to an assistant turn; a stored history is replaced only
\* by the end of the history an invocation read, followed by that exchange's
\* user turn and assistant turn: whole when it fits, else cut at the front.
C22_StoredHistoryShape ==
  /\ [](\A k \in DOMAIN conversations :
          WellFormed(conversations[k].messages))
  /\ [][ \A h \in Handlers :
           (hnd[h].pc = "typing" /\ hnd'[h].pc = "llm") =>
             hnd'[h].updatedHistory =
               Lookup(conversations, hnd[h].req.chatId) \o
               <<UserTurn(hnd[h].text)>> ]_vars
  /\ [][ \A k \in Keys :
           (EntryChanges(k) /\ k \in DOMAIN conversations') =>
             \E h \in Handlers :
               /\ hnd[h].req.chatId = k
               /\ hnd[h].pc = "llm" /\ hnd'[h].pc = "send"
               /\ LET full == hnd[h].updatedHistory \o
                              << [role |-> "assistant",
                                  content |-> hnd'[h].aiReply] >>
                      stored == conversations'[k].messages
                  IN  /\ IsSuffix(stored, full)
                      /\ Len(stored) < Len(full) => Len(stored) = 20 ]_vars

\* two exchanges on chatA have completed over a history that was full: the
\* store holds 20 turns, the last four those of the two exchanges
C22_Witness ==
  /\ hnd[1].pc = "done"
  /\ hnd[1].req.chatId = "chatA"
  /\ Count(hnd[1].log, "updateConversation") = 1
  /\ started = 2
  /\ "chatA" \in DOMAIN conversations
  /\ Len(conversations["chatA"].messages) = 20
  /\ conversations["chatA"].messages[17] = UserTurn(<<"h", "i">>)
  /\ conversations["chatA"].messages[19] = UserTurn(<<"h", "i">>)
  /\ conversations["chatA"].lastActivity > 0

====
